---- MODULE Spec2Model ----
(***************************************************************************)
(* Model of the TinyGo target selector of src/src/extension.ts: the        *)
(* 'vscode-tinygo.selectTarget' command handler, readTargetList,           *)
(* updateStatusBar and moveElementToFront.                                 *)
(*                                                                         *)
(* A JavaScript string is a sequence of one-character strings, so that     *)
(* trimRight, split, indexOf, substr, trim and join are computed.  A       *)
(* string[] is a sequence of such sequences.                               *)
(***************************************************************************)
EXTENDS Integers, Sequences, FiniteSets, TLC

VARIABLES
    targets,       \* closure variable `targets` of activate: Null or the catalog
    history,       \* context.globalState 'history'
    activeTarget,  \* context.workspaceState 'tinygo-target' (Undefined when never set)
    envVars,       \* configuration go.toolsEnvVars of the workspace
    statusText,    \* statusbarItem.text
    pc,            \* per handler invocation: the await it is suspended at
    items,         \* per handler invocation: the entries handed to showQuickPick
    target,        \* per handler invocation: the local `target` while 'tinygo info' runs
    lastEvent,     \* what the latest step showed or did (error message, commit, ...)
    pureIn,        \* inputs of the function under test (function specifications only)
    pureOut        \* its results (function specifications only)

progVars == <<targets, history, activeTarget, envVars, statusText, pc, items, target, lastEvent>>
pureVars == <<pureIn, pureOut>>
vars == <<targets, history, activeTarget, envVars, statusText, pc, items, target, lastEvent, pureIn, pureOut>>

----------------------------------------------------------------------------
(* Bounds *)

\* number of handler invocations that may be suspended at the same time
NFlows == 2
\* longest sequence given to moveElementToFront in MoveSpec
MaxLen == 3
\* most lines printed by 'tinygo targets', and longest history, in LoadSpec
MaxLines == 3
\* most lines of a 'tinygo info' output in InfoSpec
MaxInfoLines == 3

Flows == 1..NFlows

----------------------------------------------------------------------------
(* JavaScript values *)

\* null / undefined in the place of a string[]: no string[] equals it
Null == << <<"null">> >>
\* undefined in the place of a string: no string equals it
Undefined == <<"undefined">>

Sentinel == <<"-">>

Range(s) == {s[i] : i \in 1..Len(s)}

\* the whitespace String.prototype.trim and trimRight remove: the ECMAScript
\* WhiteSpace and LineTerminator characters.  Those listed are space, line
\* feed, tab, carriage return, form feed, vertical tab (U+000B), no-break
\* space (U+00A0), the byte order mark (U+FEFF) and the ogham space mark
\* (U+1680).  The others (U+2000 to U+200A, U+2028, U+2029, U+202F, U+205F,
\* U+3000) cannot be written in a string of this module, so no string of the
\* model contains them.
IsSpace(c) == c \in {" ", "\n", "\t", "\r", "\f", "", " ", "﻿", " "}

RECURSIVE TrimRight(_)
TrimRight(s) ==
    IF s = <<>> THEN s
    ELSE IF IsSpace(s[Len(s)]) THEN TrimRight(SubSeq(s, 1, Len(s) - 1))
    ELSE s

RECURSIVE TrimLeft(_)
TrimLeft(s) ==
    IF s = <<>> THEN s
    ELSE IF IsSpace(s[1]) THEN TrimLeft(Tail(s))
    ELSE s

Trim(s) == TrimLeft(TrimRight(s))

\* Array.prototype.indexOf / String.prototype.indexOf: 0-based, -1 when absent
RECURSIVE IndexFrom(_, _, _)
IndexFrom(s, x, i) ==
    IF i >= Len(s) THEN -1
    ELSE IF s[i + 1] = x THEN i
    ELSE IndexFrom(s, x, i + 1)

IndexOf(s, x) == IndexFrom(s, x, 0)

\* String.prototype.split(sep) for a one-character separator: "" gives [""]
RECURSIVE Split(_, _)
Split(s, sep) ==
    LET p == IndexOf(s, sep)
    IN  IF p < 0 THEN <<s>>
        ELSE <<SubSeq(s, 1, p)>> \o Split(SubSeq(s, p + 2, Len(s)), sep)

\* Array.prototype.join(sep)
RECURSIVE Join(_, _)
Join(parts, sep) ==
    IF parts = <<>> THEN <<>>
    ELSE IF Len(parts) = 1 THEN parts[1]
    ELSE parts[1] \o sep \o Join(Tail(parts), sep)

----------------------------------------------------------------------------
(* moveElementToFront (extension.ts 166-174) *)

\* values.splice(index, 1)
Splice1(values, index) ==
    SubSeq(values, 1, index) \o SubSeq(values, index + 2, Len(values))

\* values.unshift(value)
Unshift(values, value) == <<value>> \o values

\* mutant: the test `index > 0` in place of `index > -1`
moveElementToFront_gt0(values, value) ==
    LET index == IndexOf(values, value)
    IN  Unshift(IF index > 0 THEN Splice1(values, index) ELSE values, value)

\* mutant: the old value is never removed
moveElementToFront_nosplice(values, value) ==
    Unshift(values, value)

moveElementToFront(values, value) ==
    LET index == IndexOf(values, value)
    IN  Unshift(IF index > -1 THEN Splice1(values, index) ELSE values, value)

----------------------------------------------------------------------------
(* readTargetList (extension.ts 137-161) *)

\* stdout.trimRight().split('\n')
SplitTargets(stdout) == Split(TrimRight(stdout), "\n")

\* mutant: the loop runs from the most recent history entry to the least recent
RECURSIVE SortByHistory_forward(_, _, _)
SortByHistory_forward(list, hist, i) ==
    IF i < 0 THEN list
    ELSE IF IndexOf(list, hist[Len(hist) - i]) < 0
         THEN SortByHistory_forward(list, hist, i - 1)
         ELSE SortByHistory_forward(moveElementToFront(list, hist[Len(hist) - i]), hist, i - 1)

\* the loop of lines 154-158, from i down to 0 (i is 0-based)
RECURSIVE SortByHistory(_, _, _)
SortByHistory(list, hist, i) ==
    IF i < 0 THEN list
    ELSE IF IndexOf(list, hist[i + 1]) < 0
         THEN SortByHistory(list, hist, i - 1)
         ELSE SortByHistory(moveElementToFront(list, hist[i + 1]), hist, i - 1)

\* mutant: the sentinel is not added
readTargetList_nosentinel(stdout, hist) ==
    SortByHistory(SplitTargets(stdout), hist, Len(hist) - 1)

\* the value readTargetList returns when 'tinygo targets' prints stdout
readTargetList(stdout, hist) ==
    SortByHistory(Unshift(SplitTargets(stdout), Sentinel), hist, Len(hist) - 1)

----------------------------------------------------------------------------
(* 'tinygo info' output (extension.ts 52-74) and the checks of 80-89 *)

KeyGOROOT == <<"c","a","c","h","e","d"," ","G","O","R","O","O","T">>
KeyTags   == <<"b","u","i","l","d"," ","t","a","g","s">>
KeyGOOS   == <<"G","O","O","S">>
KeyGOARCH == <<"G","O","A","R","C","H">>

NoInfo == [goos |-> <<>>, goarch |-> <<>>, goroot |-> <<>>, buildTags |-> <<>>]

\* mutant: the line is split at its last colon
ParseLine_lastcolon(info, line) ==
    LET colons == {i \in 1..Len(line) : line[i] = ":"}
        colonPos == IF colons = {} THEN -1
                    ELSE (CHOOSE i \in colons : \A j \in colons : j <= i) - 1
    IN  IF colonPos < 0 THEN info
        ELSE LET key   == Trim(SubSeq(line, 1, colonPos))
                 value == Trim(SubSeq(line, colonPos + 2, Len(line)))
             IN  IF key = KeyGOROOT THEN [info EXCEPT !.goroot = value]
                 ELSE IF key = KeyTags THEN [info EXCEPT !.buildTags = value]
                 ELSE IF key = KeyGOOS THEN [info EXCEPT !.goos = value]
                 ELSE IF key = KeyGOARCH THEN [info EXCEPT !.goarch = value]
                 ELSE info

\* the body of the forEach callback, lines 61-73
ParseLine(info, line) ==
    LET colonPos == IndexOf(line, ":")
    IN  IF colonPos < 0 THEN info
        ELSE LET key   == Trim(SubSeq(line, 1, colonPos))
                 value == Trim(SubSeq(line, colonPos + 2, Len(line)))
             IN  IF key = KeyGOROOT THEN [info EXCEPT !.goroot = value]
                 ELSE IF key = KeyTags THEN [info EXCEPT !.buildTags = value]
                 ELSE IF key = KeyGOOS THEN [info EXCEPT !.goos = value]
                 ELSE IF key = KeyGOARCH THEN [info EXCEPT !.goarch = value]
                 ELSE info

RECURSIVE ParseLines(_, _)
ParseLines(info, lines) ==
    IF lines = <<>> THEN info
    ELSE ParseLines(ParseLine(info, Head(lines)), Tail(lines))

\* stdout.trimRight().split('\n').forEach(...), lines 60-74
ParseInfo(stdout) == ParseLines(NoInfo, Split(TrimRight(stdout), "\n"))

\* mutant: the GOROOT check of lines 85-89 is missing
CheckInfo_nogoroot(info) ==
    IF info.buildTags = <<>> THEN "errTags" ELSE "ok"

\* mutant: the GOROOT check comes before the build tags check
CheckInfo_rootfirst(info) ==
    IF info.goroot = <<>> THEN "errGoroot"
    ELSE IF info.buildTags = <<>> THEN "errTags"
    ELSE "ok"

\* lines 80-89: which error message is shown, or "ok"
CheckInfo(info) ==
    IF info.buildTags = <<>> THEN "errTags"
    ELSE IF info.goroot = <<>> THEN "errGoroot"
    ELSE "ok"

----------------------------------------------------------------------------
(* the commit, extension.ts 92-113 *)

\* mutant: the value is written as it is, the empty string included
OrUndefined_asis(x) == x

\* x ? x : undefined
OrUndefined(x) == IF x = <<>> THEN Undefined ELSE x

\* mutant: only the first space is replaced, as by buildTags.replace(' ', ',')
GoFlags_firstspace(buildTags) ==
    IF buildTags = <<>> THEN Undefined
    ELSE LET p == IndexOf(buildTags, " ")
         IN  <<"-","t","a","g","s","=">> \o
             (IF p < 0 THEN buildTags
              ELSE SubSeq(buildTags, 1, p) \o <<",">> \o SubSeq(buildTags, p + 2, Len(buildTags)))

\* buildTags ? "-tags="+(buildTags.split(' ').join(',')) : undefined
GoFlags(buildTags) ==
    IF buildTags = <<>> THEN Undefined
    ELSE <<"-","t","a","g","s","=">> \o Join(Split(buildTags, " "), <<",">>)

\* mutant: a new mapping with the four keys alone is written
UpdateEnv_fresh(env, info) ==
    [k \in DOMAIN env |->
        IF k = "GOOS" THEN OrUndefined(info.goos)
        ELSE IF k = "GOARCH" THEN OrUndefined(info.goarch)
        ELSE IF k = "GOROOT" THEN OrUndefined(info.goroot)
        ELSE IF k = "GOFLAGS" THEN GoFlags(info.buildTags)
        ELSE Undefined]

\* lines 95-100: the four keys are assigned, the other keys are kept
UpdateEnv(env, info) ==
    [env EXCEPT !.GOOS = OrUndefined(info.goos),
                !.GOARCH = OrUndefined(info.goarch),
                !.GOROOT = OrUndefined(info.goroot),
                !.GOFLAGS = GoFlags(info.buildTags)]

\* mutant: the target is shown without the test for the sentinel
StatusBarText_notest(stored) ==
    LET t == IF stored = Undefined THEN Sentinel ELSE stored
    IN  <<"T","i","n","y","G","o",":"," ">> \o t

\* updateStatusBar, lines 125-133, for the stored 'tinygo-target'
StatusBarText(stored) ==
    LET t == IF stored = Undefined THEN Sentinel ELSE stored
    IN  IF t # Sentinel
        THEN <<"T","i","n","y","G","o",":"," ">> \o t
        ELSE <<"T","i","n","y","G","o">>

Event(kind, t) == [kind |-> kind, target |-> t]

\* mutant: the history is saved without the picked target moved to the front
Commit_nohistory(f, t, info) ==
    /\ envVars' = UpdateEnv(envVars, info)
    /\ activeTarget' = t
    /\ statusText' = StatusBarText(t)
    /\ IF targets = Null
       THEN /\ UNCHANGED <<targets, history>>
            /\ lastEvent' = Event("throw", t)
       ELSE /\ targets' = moveElementToFront(targets, t)
            /\ history' = history
            /\ lastEvent' = Event("commit", t)
    /\ pc' = [pc EXCEPT ![f] = "idle"]
    /\ items' = [items EXCEPT ![f] = {}]
    /\ target' = [target EXCEPT ![f] = <<>>]

\* lines 94-113, run without an await in between.  With `targets` null,
\* moveElementToFront(targets, target) of line 108 throws a TypeError after
\* lines 94-105 have run, and lines 111-113 are not reached.
Commit(f, t, info) ==
    /\ envVars' = UpdateEnv(envVars, info)
    /\ activeTarget' = t
    /\ statusText' = StatusBarText(t)
    /\ IF targets = Null
       THEN /\ UNCHANGED <<targets, history>>
            /\ lastEvent' = Event("throw", t)
       ELSE /\ targets' = moveElementToFront(targets, t)
            /\ history' = moveElementToFront(history, t)
            /\ lastEvent' = Event("commit", t)
    /\ pc' = [pc EXCEPT ![f] = "idle"]
    /\ items' = [items EXCEPT ![f] = {}]
    /\ target' = [target EXCEPT ![f] = <<>>]

----------------------------------------------------------------------------
(* The environment: what the two commands print, what was persisted *)

NL == <<"\n">>

\* outputs of 'tinygo targets'
TargetsOutputs ==
    { <<"a">> \o NL \o <<"b">> \o NL,
      <<"a">> \o NL \o <<"a">> \o NL,
      <<>> }

\* outputs of 'tinygo info <target>'
LineGOOS   == KeyGOOS \o <<":"," ","l">> \o NL
LineGOARCH == KeyGOARCH \o <<":"," ","r">> \o NL
LineGOROOT == KeyGOROOT \o <<":"," ","/","r">> \o NL
LineTags   == KeyTags \o <<":"," "," ","t"," ","g"," ","h"," ">> \o NL
LineOther  == <<"L","L","V","M",":"," ","x",":","y">> \o NL
LineNoColon == <<"n","o","t","e">> \o NL

InfoOutputs ==
    { LineGOOS \o LineGOARCH \o LineGOROOT \o LineTags,
      LineOther \o LineNoColon \o LineGOROOT \o LineTags,
      LineGOOS \o LineGOARCH \o LineGOROOT,
      LineGOOS \o LineGOARCH \o LineTags,
      LineGOOS \o LineOther }

\* ParseInfo of each of these outputs, computed once
ParsedInfo == [stdout \in InfoOutputs |-> ParseInfo(stdout)]

\* the history left by earlier sessions
InitHistories == { <<>>, << <<"b">>, <<"x">> >> }

----------------------------------------------------------------------------
(* The selectTarget command handler, extension.ts 34-114, one action per    *)
(* stretch of code between two awaits.                                     *)

Idle ==
    /\ pc = [f \in Flows |-> "idle"]
    /\ items = [f \in Flows |-> {}]
    /\ target = [f \in Flows |-> <<>>]

InitProg ==
    /\ targets = Null
    /\ history \in InitHistories
    /\ activeTarget = Undefined
    /\ envVars = [GOOS |-> Undefined, GOARCH |-> Undefined, GOROOT |-> Undefined,
                  GOFLAGS |-> Undefined, GOPATH |-> <<"/","p">>]
    /\ statusText = StatusBarText(activeTarget)
    /\ Idle
    /\ lastEvent = Event("activate", <<>>)

NoPure ==
    /\ pureIn = <<>>
    /\ pureOut = <<>>

Init == InitProg /\ NoPure

\* showQuickPick(targets, ...), line 46
ShowQuickPick(f, list) ==
    /\ pc' = [pc EXCEPT ![f] = "picking"]
    /\ items' = [items EXCEPT ![f] = Range(list)]

\* the command is run: lines 36-37 up to the await of 'tinygo targets', or,
\* with the catalog loaded, up to the await of showQuickPick
SelectTarget(f) ==
    /\ pc[f] = "idle"
    /\ IF targets = Null
       THEN /\ pc' = [pc EXCEPT ![f] = "loading"]
            /\ items' = items
            /\ lastEvent' = Event("targets", <<>>)
       ELSE /\ ShowQuickPick(f, targets)
            /\ lastEvent' = Event("pick", <<>>)
    /\ UNCHANGED <<targets, history, activeTarget, envVars, statusText, target, pureVars>>

\* 'tinygo targets' printed stdout: lines 143-160, 37-46
TargetsDone(f, stdout) ==
    /\ pc[f] = "loading"
    /\ targets' = readTargetList(stdout, history)
    /\ ShowQuickPick(f, targets')
    /\ lastEvent' = Event("pick", <<>>)
    /\ UNCHANGED <<history, activeTarget, envVars, statusText, target, pureVars>>

\* 'tinygo targets' failed: lines 144-147, 37-43
TargetsFailed(f) ==
    /\ pc[f] = "loading"
    /\ targets' = Null
    /\ pc' = [pc EXCEPT ![f] = "idle"]
    /\ lastEvent' = Event("errTargets", <<>>)
    /\ UNCHANGED <<history, activeTarget, envVars, statusText, items, target, pureVars>>

\* mutant: without the return of line 49, 'tinygo info undefined' is run
Dismiss_noreturn(f) ==
    /\ pc[f] = "picking"
    /\ pc' = [pc EXCEPT ![f] = "resolving"]
    /\ items' = [items EXCEPT ![f] = {}]
    /\ target' = [target EXCEPT ![f] = Undefined]
    /\ lastEvent' = Event("info", Undefined)
    /\ UNCHANGED <<targets, history, activeTarget, envVars, statusText, pureVars>>

\* the quick pick is dismissed: showQuickPick gives undefined, line 49
Dismiss(f) ==
    /\ pc[f] = "picking"
    /\ pc' = [pc EXCEPT ![f] = "idle"]
    /\ items' = [items EXCEPT ![f] = {}]
    /\ lastEvent' = Event("dismissed", <<>>)
    /\ UNCHANGED <<targets, history, activeTarget, envVars, statusText, target, pureVars>>

\* an entry is picked: lines 49-59, and 92-113 for the sentinel
Pick(f, t) ==
    /\ pc[f] = "picking"
    /\ t \in items[f]
    /\ IF t = <<>>
       THEN \* `!target` holds of the empty string: return
            /\ pc' = [pc EXCEPT ![f] = "idle"]
            /\ items' = [items EXCEPT ![f] = {}]
            /\ lastEvent' = Event("return", t)
            /\ UNCHANGED <<targets, history, activeTarget, envVars, statusText, target>>
       ELSE IF t # Sentinel
       THEN \* execFile('tinygo', ['info', target]) is awaited
            /\ pc' = [pc EXCEPT ![f] = "resolving"]
            /\ items' = [items EXCEPT ![f] = {}]
            /\ target' = [target EXCEPT ![f] = t]
            /\ lastEvent' = Event("info", t)
            /\ UNCHANGED <<targets, history, activeTarget, envVars, statusText>>
       ELSE Commit(f, t, NoInfo)
    /\ UNCHANGED pureVars

\* 'tinygo info' failed: lines 75-78
InfoFailed(f) ==
    /\ pc[f] = "resolving"
    /\ pc' = [pc EXCEPT ![f] = "idle"]
    /\ target' = [target EXCEPT ![f] = <<>>]
    /\ lastEvent' = Event("errInfo", target[f])
    /\ UNCHANGED <<targets, history, activeTarget, envVars, statusText, items, pureVars>>

\* 'tinygo info' printed stdout: lines 60-74, 80-113
InfoDone(f, stdout) ==
    /\ pc[f] = "resolving"
    /\ LET info == ParsedInfo[stdout]
           check == CheckInfo(info)
       IN  IF check # "ok"
           THEN /\ pc' = [pc EXCEPT ![f] = "idle"]
                /\ target' = [target EXCEPT ![f] = <<>>]
                /\ lastEvent' = Event(check, target[f])
                /\ UNCHANGED <<targets, history, activeTarget, envVars, statusText, items>>
           ELSE Commit(f, target[f], info)
    /\ UNCHANGED pureVars

Next ==
    \/ \E f \in Flows : SelectTarget(f)
    \/ \E f \in Flows : \E stdout \in TargetsOutputs : TargetsDone(f, stdout)
    \/ \E f \in Flows : TargetsFailed(f)
    \/ \E f \in Flows : Dismiss(f)
    \/ \E f \in Flows : \E t \in items[f] : Pick(f, t)
    \/ \E f \in Flows : InfoFailed(f)
    \/ \E f \in Flows : \E stdout \in InfoOutputs : InfoDone(f, stdout)

Spec == Init /\ [][Next]_vars

----------------------------------------------------------------------------
(* MoveSpec: moveElementToFront applied once, then again, to every sequence *)
(* of at most MaxLen entries and every value.                              *)

SeqsUpTo(n, S) == UNION {[1..k -> S] : k \in 0..n}

NoDup(s) == \A i, j \in 1..Len(s) : s[i] = s[j] => i = j

MoveEntries == { <<"a">>, <<"b">>, Sentinel }

\* the program at rest, in the specifications of the functions
AtRest == InitProg /\ history = <<>>

InitMove ==
    /\ AtRest
    /\ pureIn \in [values : SeqsUpTo(MaxLen, MoveEntries), value : MoveEntries]
    /\ pureOut = <<>>

MoveOnce ==
    /\ pureOut = <<>>
    /\ pureOut' = <<moveElementToFront(pureIn.values, pureIn.value)>>
    /\ UNCHANGED <<pureIn, progVars>>

MoveAgain ==
    /\ Len(pureOut) = 1
    /\ pureOut' = Append(pureOut, moveElementToFront(pureOut[1], pureIn.value))
    /\ UNCHANGED <<pureIn, progVars>>

NextMove == MoveOnce \/ MoveAgain

MoveSpec == InitMove /\ [][NextMove]_vars

----------------------------------------------------------------------------
(* LoadSpec: readTargetList applied to every output of at most MaxLines    *)
(* lines and every duplicate-free history of at most MaxLines entries.     *)

LineEntries == { <<"a">>, <<"b">>, <<"c">>, Sentinel }
HistoryEntries == { <<"a">>, <<"b">>, <<"c">>, <<"x">>, Sentinel }

\* what 'tinygo targets' prints for these lines: each line and a newline
RECURSIVE PrintLines(_)
PrintLines(lines) ==
    IF lines = <<>> THEN <<>>
    ELSE Head(lines) \o NL \o PrintLines(Tail(lines))

InitLoad ==
    /\ AtRest
    /\ \E lines \in SeqsUpTo(MaxLines, LineEntries) :
       \E hist \in {h \in SeqsUpTo(MaxLines, HistoryEntries) : NoDup(h)} :
           pureIn = [lines |-> lines, stdout |-> PrintLines(lines), history |-> hist]
    /\ pureOut = <<>>

LoadTargets ==
    /\ pureOut = <<>>
    /\ pureOut' = <<readTargetList(pureIn.stdout, pureIn.history)>>
    /\ UNCHANGED <<pureIn, progVars>>

LoadAgain ==
    /\ Len(pureOut) = 1
    /\ pureOut' = Append(pureOut, readTargetList(pureIn.stdout, pureIn.history))
    /\ UNCHANGED <<pureIn, progVars>>

NextLoad == LoadTargets \/ LoadAgain

LoadSpec == InitLoad /\ [][NextLoad]_vars

----------------------------------------------------------------------------
(* InfoSpec: lines 59-89 and 99 applied to every 'tinygo info' output of   *)
(* at most MaxInfoLines of the lines below, and to the output of a         *)
(* complete target.                                                        *)

InfoLineSet ==
    { KeyGOOS \o <<":"," ","l">>,
      KeyGOARCH \o <<":"," ","r">>,
      KeyGOROOT \o <<":"," ","/","r">>,
      KeyTags \o <<":"," "," ","t"," ","g"," ","h"," ">>,
      KeyTags \o <<":"," ">>,
      <<"L","L","V","M",":"," ","x",":","y">>,
      <<"n","o","t","e">>,
      <<"g","o","o","s",":"," ","z">>,
      <<" "," ">> \o KeyGOOS \o <<" ",":"," "," ","w",":","v"," ">>,
      <<"G","O","R","O","O","T",":"," ","/","g">>,
      <<"\f">> \o KeyGOARCH \o <<"\f",":","\f","q","\f">> }

ExampleInfoLines ==
    << KeyGOOS \o <<":"," ","l","i","n","u","x">>,
       KeyGOARCH \o <<":"," ","a","r","m">>,
       KeyGOROOT \o <<":"," ","/","o","p","t","/","t","i","n","y","g","o","/","r","o","o","t">>,
       KeyTags \o <<":"," ","t","i","n","y","g","o"," ","g","c",".","c","o","n","s","e","r","v","a","t","i","v","e">> >>

InitInfo ==
    /\ AtRest
    /\ \E lines \in SeqsUpTo(MaxInfoLines, InfoLineSet) \cup {ExampleInfoLines} :
           pureIn = [lines |-> lines, stdout |-> PrintLines(lines)]
    /\ pureOut = <<>>

\* lines 59-74, the checks of 80-89 and the GOFLAGS value of line 99
ResolveInfo ==
    /\ pureOut = <<>>
    /\ LET info == ParseInfo(pureIn.stdout)
       IN  pureOut' = <<[info |-> info, check |-> CheckInfo(info),
                         goflags |-> GoFlags(info.buildTags)]>>
    /\ UNCHANGED <<pureIn, progVars>>

NextInfo == ResolveInfo

InfoSpec == InitInfo /\ [][NextInfo]_vars

----------------------------------------------------------------------------
(* Claims *)

ErrorKinds == {"errTargets", "errInfo", "errTags", "errGoroot"}

\* the outputs of 'tinygo info' whose build tags or cached GOROOT resolve empty
IncompleteInfoOutputs ==
    {stdout \in InfoOutputs :
        ParseInfo(stdout).buildTags = <<>> \/ ParseInfo(stdout).goroot = <<>>}

\* flow f's metadata resolution fails in this step: 'tinygo info' fails, or
\* prints an output whose build tags or cached GOROOT resolve empty
ResolutionFails(f) ==
    /\ pc[f] = "resolving"
    /\ pc'[f] # "resolving"
    /\ \/ InfoFailed(f)
       \/ \E stdout \in IncompleteInfoOutputs : InfoDone(f, stdout)

\* the Catalog is unchanged.
C2_CommitMovesToFront ==
    [][lastEvent'.kind = "commit" =>
          LET t == lastEvent'.target
          IN  /\ Len(history') > 0 /\ history'[1] = t
              /\ targets' # Null /\ targets'[1] = t
              /\ activeTarget' = t
              /\ (targets[1] = t => targets' = targets)]_vars

\* a selection of "a" has completed on top of an older history
C2_Witness ==
    /\ lastEvent = Event("commit", <<"a">>)
    /\ activeTarget = <<"a">>
    /\ targets # Null /\ targets[1] = <<"a">>
    /\ Len(history) >= 3 /\ history[1] = <<"a">>

\* C3: at most one selection flow is in flight at a time, and no two
\* external command invocations are outstanding at the same time.
C3_OneFlowInFlight ==
    /\ Cardinality({f \in Flows : pc[f] # "idle"}) <= 1
    /\ Cardinality({f \in Flows : pc[f] \in {"loading", "resolving"}}) <= 1

\* C4: 'tinygo targets' is invoked only by a request that finds no cached
\* catalog; a catalog once cached stays cached, so that the command is never
\* invoked again; a failed load leaves the catalog uncached.
C4_LoadOnce ==
    [][/\ \A f \in Flows :
             (pc[f] # "loading" /\ pc'[f] = "loading") => targets = Null
       /\ (targets # Null => targets' # Null)
       /\ (lastEvent'.kind = "errTargets" => targets' = Null)]_vars

\* s without the first occurrence of v
RemoveFirst(s, v) ==
    IF v \notin Range(s) THEN s
    ELSE LET i == CHOOSE i \in 1..Len(s) : s[i] = v /\ \A j \in 1..(i - 1) : s[j] # v
         IN  [k \in 1..(Len(s) - 1) |-> IF k < i THEN s[k] ELSE s[k + 1]]

\* s without the first occurrence of each entry of vs
RECURSIVE RemoveEach(_, _)
RemoveEach(s, vs) ==
    IF vs = <<>> THEN s ELSE RemoveEach(RemoveFirst(s, Head(vs)), Tail(vs))

\* the raw sequence: the sentinel, then the lines 'tinygo targets' printed
\* (an output without lines is read as one empty line)
RawSequence(lines) == <<Sentinel>> \o (IF lines = <<>> THEN << <<>> >> ELSE lines)

\* C5: the loaded catalog is the History entries that occur in the raw
\* sequence (sentinel included), in History order, followed by the remaining
\* entries of the raw sequence in their original order; History entries absent
\* from the raw sequence are skipped.  Lines a,b,c with History [c,x] give
\* [c,-,a,b].
C5_CatalogOrderedByHistory ==
    pureOut # <<>> =>
        LET raw     == RawSequence(pureIn.lines)
            hist    == pureIn.history
            present == SelectSeq(hist, LAMBDA h : h \in Range(raw))
            result  == pureOut[1]
        IN  /\ result = present \o RemoveEach(raw, present)
            /\ NoDup(raw) =>
                  result = present \o SelectSeq(raw, LAMBDA r : r \notin Range(hist))
            /\ (pureIn.lines = << <<"a">>, <<"b">>, <<"c">> >>
                  /\ hist = << <<"c">>, <<"x">> >>) =>
                  result = << <<"c">>, Sentinel, <<"a">>, <<"b">> >>

\* the catalog of lines a,b,c has been loaded with history [c,x]
C5_Witness ==
    /\ pureOut # <<>>
    /\ pureIn.lines = << <<"a">>, <<"b">>, <<"c">> >>
    /\ pureIn.history = << <<"c">>, <<"x">> >>
    /\ pureOut[1] = << <<"c">>, Sentinel, <<"a">>, <<"b">> >>

\* C6: a loaded Catalog contains the sentinel "-", whatever the History and
\* the output of 'tinygo targets', and keeps it through every selection.
C6_CatalogHasSentinel ==
    targets # Null => Sentinel \in Range(targets)

\* a selection has moved another target in front of the sentinel
C6_Witness ==
    /\ lastEvent.kind = "commit"
    /\ targets # Null
    /\ targets[1] # Sentinel
    /\ Sentinel \in Range(targets)

\* C7: picking the sentinel does not run 'tinygo info', is never a failure
\* and commits: the same step completes the selection with GOOS, GOARCH,
\* GOROOT and GOFLAGS unset and the sentinel as the Active Target.
C7_SentinelSkipsResolution ==
    [][\A f \in Flows : Pick(f, Sentinel) =>
          /\ pc'[f] = "idle"
          /\ lastEvent' = Event("commit", Sentinel)
          /\ envVars'.GOOS = Undefined
          /\ envVars'.GOARCH = Undefined
          /\ envVars'.GOROOT = Undefined
          /\ envVars'.GOFLAGS = Undefined
          /\ activeTarget' = Sentinel]_vars

\* C7, the part that holds: picking the sentinel never runs 'tinygo info'
\* and never reports an error message, and the same step writes the four
\* keys as unset and the sentinel as the Active Target, also when the step
\* then throws at line 108.
C7_SentinelUnsetsKeys ==
    [][\A f \in Flows : Pick(f, Sentinel) =>
          /\ pc'[f] = "idle"
          /\ lastEvent'.kind \in {"commit", "throw"}
          /\ lastEvent'.target = Sentinel
          /\ \A k \in {"GOOS", "GOARCH", "GOROOT", "GOFLAGS"} : envVars'[k] = Undefined
          /\ activeTarget' = Sentinel]_vars

\* the sentinel has been selected after a selection of "a" had set the keys
C7_Witness ==
    /\ lastEvent = Event("commit", Sentinel)
    /\ Len(history) >= 2 /\ history[1] = Sentinel /\ history[2] = <<"a">>
    /\ envVars.GOROOT = Undefined
    /\ envVars.GOFLAGS = Undefined

\* C8: a step in which the quick pick is dismissed ends the flow without
\* running 'tinygo info' and without an error, and leaves the configuration,
\* the Active Target, the History, the status indicator and the Catalog
\* unchanged.
C8_DismissChangesNothing ==
    [][\A f \in Flows : Dismiss(f) =>
          /\ pc'[f] = "idle"
          /\ lastEvent'.kind \notin ErrorKinds
          /\ UNCHANGED <<envVars, activeTarget, history, statusText, targets>>]_vars

\* a quick pick has been dismissed after an earlier selection
C8_Witness ==
    /\ lastEvent.kind = "dismissed"
    /\ activeTarget # Undefined
    /\ history # <<>>
    /\ targets # Null

\* C9: moveElementToFront applied twice with the same value gives the
\* sequence obtained by applying it once.
C9_MoveToFrontIdempotent ==
    Len(pureOut) = 2 => pureOut[2] = pureOut[1]

\* applied twice to a sequence holding the value behind its front
C9_Witness ==
    /\ Len(pureOut) = 2
    /\ Len(pureIn.values) >= 2
    /\ pureIn.values[1] # pureIn.value
    /\ pureIn.value \in Range(pureIn.values)

\* C10: moveElementToFront(s, v) is v followed by s without the first
\* occurrence of v: the members are those of s and v, the length is that of s
\* when v was present and one more when it was absent, and the other
\* elements keep their relative order.
C10_MoveToFrontShape ==
    Len(pureOut) >= 1 =>
        LET s == pureIn.values
            v == pureIn.value
            r == pureOut[1]
        IN  /\ r = <<v>> \o RemoveFirst(s, v)
            /\ Range(r) = Range(s) \cup {v}
            /\ Len(r) = IF v \in Range(s) THEN Len(s) ELSE Len(s) + 1
            /\ SelectSeq(Tail(r), LAMBDA x : x # v) = SelectSeq(s, LAMBDA x : x # v)

\* applied to a sequence that holds the value twice, neither at the front
C10_Witness ==
    /\ Len(pureOut) >= 1
    /\ Len(pureIn.values) = 3
    /\ pureIn.values[1] # pureIn.value
    /\ pureIn.values[2] = pureIn.value
    /\ pureIn.values[3] = pureIn.value
    /\ pureOut[1] = <<pureIn.value, pureIn.values[1], pureIn.value>>

EnvKeys == {"GOOS", "GOARCH", "GOROOT", "GOFLAGS"}

\* s with every space replaced by a comma
CommaForSpace(s) == [i \in 1..Len(s) |-> IF s[i] = " " THEN "," ELSE s[i]]

\* C11: a step that writes the configuration leaves none of GOOS, GOARCH,
\* GOROOT, GOFLAGS an empty string: each is unset or non-empty; GOFLAGS is
\* "-tags=" followed by the build tags with every space replaced by a comma;
\* and for a target other than the sentinel GOROOT and GOFLAGS are both set.
C11_NoEmptyEnvValue ==
    [][/\ lastEvent'.kind \in {"commit", "throw"} =>
             /\ \A k \in EnvKeys : envVars'[k] # <<>>
             /\ lastEvent'.target # Sentinel =>
                   envVars'.GOROOT # Undefined /\ envVars'.GOFLAGS # Undefined
       /\ \A f \in Flows : \A stdout \in InfoOutputs :
             (/\ lastEvent'.kind \in {"commit", "throw"}
              /\ pc[f] = "resolving" /\ pc'[f] # "resolving"
              /\ InfoDone(f, stdout)) =>
                 envVars'.GOFLAGS =
                     <<"-","t","a","g","s","=">> \o CommaForSpace(ParsedInfo[stdout].buildTags)]_vars

\* a target whose output had three build tags and neither GOOS nor GOARCH
\* has been committed
C11_Witness ==
    /\ lastEvent.kind = "commit"
    /\ lastEvent.target # Sentinel
    /\ envVars.GOFLAGS = <<"-","t","a","g","s","=","t",",","g",",","h">>
    /\ envVars.GOOS = Undefined
    /\ envVars.GOROOT = <<"/","r">>

\* C12: when 'tinygo info' succeeds, the build tags error is the one reported
\* whenever the build tags resolve empty (the root path empty or not), the
\* GOROOT error exactly when the build tags are present and the root path
\* resolves empty, and nothing else fails: an empty GOOS or GOARCH does not.
C12_OneFieldError ==
    pureOut # <<>> =>
        LET info  == pureOut[1].info
            check == pureOut[1].check
        IN  /\ info.buildTags = <<>> => check = "errTags"
            /\ (info.buildTags # <<>> /\ info.goroot = <<>>) => check = "errGoroot"
            /\ (info.buildTags # <<>> /\ info.goroot # <<>>) => check = "ok"

\* an output without build tags and without cached GOROOT has been resolved
C12_Witness ==
    /\ pureOut # <<>>
    /\ pureOut[1].info.buildTags = <<>>
    /\ pureOut[1].info.goroot = <<>>
    /\ pureOut[1].info.goos # <<>>
    /\ pureOut[1].check = "errTags"

\* C13: whenever no selection flow is in progress, the status indicator text
\* is the bare toolchain name when the Active Target is the sentinel (or was
\* never stored), and the toolchain name followed by ": <target>" otherwise.
C13_StatusBarShowsActiveTarget ==
    (\A f \in Flows : pc[f] = "idle") =>
        statusText = IF activeTarget \in {Undefined, Sentinel}
                     THEN <<"T","i","n","y","G","o">>
                     ELSE <<"T","i","n","y","G","o",":"," ">> \o activeTarget

\* every flow has ended, the latest with a failed resolution after "b" had
\* been selected
C13_Witness ==
    /\ \A f \in Flows : pc[f] = "idle"
    /\ lastEvent.kind \in {"errInfo", "errTags", "errGoroot"}
    /\ activeTarget = <<"b">>
    /\ statusText = <<"T","i","n","y","G","o",":"," ","b">>

\* the first colon of a line, 0 when it has none
FirstColon(line) ==
    IF ":" \notin Range(line) THEN 0
    ELSE CHOOSE p \in 1..Len(line) : line[p] = ":" /\ \A q \in 1..(p - 1) : line[q] # ":"

\* s without its leading and trailing whitespace
Strip(s) ==
    LET solid == {i \in 1..Len(s) : ~IsSpace(s[i])}
    IN  IF solid = {} THEN <<>>
        ELSE SubSeq(s, CHOOSE i \in solid : \A j \in solid : i <= j,
                       CHOOSE i \in solid : \A j \in solid : j <= i)

LineKey(line) == Strip(SubSeq(line, 1, FirstColon(line) - 1))
LineValue(line) == Strip(SubSeq(line, FirstColon(line) + 1, Len(line)))

\* the value of the last line with this key, empty when no line has it
FieldOf(lines, key) ==
    LET hits == {i \in 1..Len(lines) : FirstColon(lines[i]) > 0 /\ LineKey(lines[i]) = key}
    IN  IF hits = {} THEN <<>>
        ELSE LineValue(lines[CHOOSE i \in hits : \A j \in hits : j <= i])

\* C14: each line of the 'tinygo info' output is split at its first colon
\* into a trimmed key and a trimmed value; lines without a colon and lines
\* with another key change no field; 'cached GOROOT', 'build tags', 'GOOS',
\* 'GOARCH' (exact case) set rootPath, buildTags, os, arch.  The output of
\* GOOS: linux / GOARCH: arm / cached GOROOT: /opt/tinygo/root /
\* build tags: tinygo gc.conservative gives those four values and the
\* GOFLAGS "-tags=tinygo,gc.conservative".
C14_InfoParsedByFirstColon ==
    pureOut # <<>> =>
        LET info == pureOut[1].info
        IN  /\ info.goroot = FieldOf(pureIn.lines, KeyGOROOT)
            /\ info.buildTags = FieldOf(pureIn.lines, KeyTags)
            /\ info.goos = FieldOf(pureIn.lines, KeyGOOS)
            /\ info.goarch = FieldOf(pureIn.lines, KeyGOARCH)
            /\ pureIn.lines = ExampleInfoLines =>
                  /\ info = [goos |-> <<"l","i","n","u","x">>, goarch |-> <<"a","r","m">>,
                             goroot |-> <<"/","o","p","t","/","t","i","n","y","g","o","/","r","o","o","t">>, buildTags |-> <<"t","i","n","y","g","o"," ","g","c",".","c","o","n","s","e","r","v","a","t","i","v","e">>]
                  /\ pureOut[1].goflags = <<"-","t","a","g","s","=","t","i","n","y","g","o",",","g","c",".","c","o","n","s","e","r","v","a","t","i","v","e">>

\* the output of the complete target has been parsed
C14_Witness ==
    /\ pureOut # <<>>
    /\ pureIn.lines = ExampleInfoLines
    /\ pureOut[1].info.goroot = <<"/","o","p","t","/","t","i","n","y","g","o","/","r","o","o","t">>
    /\ pureOut[1].check = "ok"

\* C15: no step changes a key of the environment mapping other than GOOS,
\* GOARCH, GOROOT and GOFLAGS: the mapping keeps its keys and every other
\* key keeps its value.
C15_OtherKeysKept ==
    [][/\ DOMAIN envVars' = DOMAIN envVars
       /\ \A k \in DOMAIN envVars \ EnvKeys : envVars'[k] = envVars[k]]_vars

\* a selection has written the four keys and GOPATH is as it was
C15_Witness ==
    /\ lastEvent.kind = "commit"
    /\ envVars.GOOS # Undefined
    /\ envVars.GOFLAGS # Undefined
    /\ envVars.GOPATH = <<"/","p">>

Count(s, x) == Cardinality({i \in 1..Len(s) : s[i] = x})

IsPermutation(s, t) ==
    /\ Len(s) = Len(t)
    /\ \A x \in Range(s) \cup Range(t) : Count(s, x) = Count(t, x)

\* a load completes in this step
LoadCompletes == \E f \in Flows : pc[f] = "loading" /\ pc'[f] # "loading"

\* C16: once constructed by a load, the Catalog is only reordered: every
\* step other than the completion of a load leaves a cached Catalog a
\* permutation of what it was.
C16_CatalogOnlyReordered ==
    [][(targets # Null /\ targets' # Null /\ ~LoadCompletes) =>
          IsPermutation(targets, targets')]_vars

\* C17: each Target Identifier appears at most once in the History and at
\* most once in the Catalog, in every reachable state, whatever 'tinygo
\* targets' printed.
C17_NoDuplicates ==
    /\ NoDup(history)
    /\ targets # Null => NoDup(targets)

\* C17, the part that holds: the History is duplicate-free in every step; a
\* load yields a duplicate-free Catalog exactly when the lines 'tinygo targets'
\* printed are distinct and none is "-"; and no other step adds a duplicate
\* to a duplicate-free Catalog.
C17_NoDuplicatesFromDistinctLines ==
    [][/\ NoDup(history) /\ NoDup(history')
       /\ \A f \in Flows : \A stdout \in TargetsOutputs :
             (pc[f] = "loading" /\ pc'[f] # "loading" /\ TargetsDone(f, stdout)) =>
                 (NoDup(targets') <=> NoDup(Unshift(SplitTargets(stdout), Sentinel)))
       /\ (targets # Null /\ targets' # Null /\ ~LoadCompletes /\ NoDup(targets)) =>
             NoDup(targets')]_vars

\* "b" has been selected again after "a", on top of an older history
C17_Witness ==
    /\ lastEvent = Event("commit", <<"b">>)
    /\ history = << <<"b">>, <<"a">>, <<"x">> >>
    /\ targets # Null
    /\ NoDup(targets)
    /\ targets[1] = <<"b">>

\* C18: a pick of a Catalog entry starts the metadata resolution or, for the
\* sentinel, commits; and a flow that ends otherwise than by a commit or a
\* dismissal has reported an error.
C18_NoSilentEnd ==
    [][/\ \A f \in Flows : \A t \in items[f] :
             Pick(f, t) => (pc'[f] = "resolving" \/ lastEvent'.kind = "commit")
       /\ \A f \in Flows : (pc[f] # "idle" /\ pc'[f] = "idle") =>
             lastEvent'.kind \in {"commit", "dismissed"} \cup ErrorKinds]_vars

\* the outputs of 'tinygo targets' whose lines are distinct and none "-"
DistinctTargetsOutputs ==
    {stdout \in TargetsOutputs : NoDup(Unshift(SplitTargets(stdout), Sentinel))}

\* the program with a 'tinygo targets' whose lines are distinct and none "-"
NextDistinct ==
    \/ \E f \in Flows : SelectTarget(f)
    \/ \E f \in Flows : \E stdout \in DistinctTargetsOutputs : TargetsDone(f, stdout)
    \/ \E f \in Flows : TargetsFailed(f)
    \/ \E f \in Flows : Dismiss(f)
    \/ \E f \in Flows : \E t \in items[f] : Pick(f, t)
    \/ \E f \in Flows : InfoFailed(f)
    \/ \E f \in Flows : \E stdout \in InfoOutputs : InfoDone(f, stdout)

DistinctSpec == Init /\ [][NextDistinct]_vars

\* C19: when the lines of 'tinygo targets' are distinct and none is "-", a
\* cached Catalog is in every reachable state the sequence a fresh load would
\* produce from an output of 'tinygo targets' and the current History.
C19_CatalogFollowsHistory ==
    targets # Null =>
        \E stdout \in DistinctTargetsOutputs : targets = readTargetList(stdout, history)

\* C20: once a commit has happened, the front of the History is the Active
\* Target, and the four environment values are those of the Active Target:
\* all unset for the sentinel, GOROOT and GOFLAGS set otherwise.
C20_CommitAtomic ==
    activeTarget # Undefined =>
        /\ Len(history) > 0
        /\ history[1] = activeTarget
        /\ activeTarget = Sentinel => \A k \in EnvKeys : envVars[k] = Undefined
        /\ activeTarget # Sentinel =>
              envVars.GOROOT # Undefined /\ envVars.GOFLAGS # Undefined

====
